---- MODULE Spec2Model ----
(***************************************************************************)
(* Catalog mutation / persistence layer and backoffice session cookie of   *)
(* the storefront site.                                                    *)
(*                                                                         *)
(* Strings of the program are sequences of one-character strings, so that  *)
(* trim, toLowerCase and the regular-expression replacements of mutate.ts  *)
(* are computed character by character.  Time is counted in days (the      *)
(* program counts milliseconds; 30 days of milliseconds do not fit TLC's   *)
(* integers).                                                              *)
(***************************************************************************)
EXTENDS Integers, Sequences, FiniteSets, TLC

(***************************************************************************)
(* Bounds of the model.                                                    *)
(***************************************************************************)
\* requests served in one behaviour of Spec
MaxOps == 3
\* requests served in one behaviour of SeqSpec
MaxSeqOps == 2
\* last value of the clock in SeqSpec
MaxTime == 1
\* distinct outcomes of crypto.randomBytes(2).toString("hex") that are drawn
MaxSuffix == 1
\* last value of the clock in AuthSpec (days)
MaxAuthTime == 32
MaxTokenTime == 45
MaxProductOps == 1
MaxRoundTrips == 1
MaxIdOps == 3

(***************************************************************************)
(* Characters and strings.                                                 *)
(***************************************************************************)
UpperChars == <<"A","B","C","D","E","F","G","H","I","J","K","L","M",
                "N","O","P","Q","R","S","T","U","V","W","X","Y","Z">>
LowerChars == <<"a","b","c","d","e","f","g","h","i","j","k","l","m",
                "n","o","p","q","r","s","t","u","v","w","x","y","z">>
DigitChars == <<"0","1","2","3","4","5","6","7","8","9">>

Range(f) == {f[i] : i \in DOMAIN f}

SetMin(S) == CHOOSE x \in S : \A y \in S : x <= y
SetMax(S) == CHOOSE x \in S : \A y \in S : x >= y

\* the characters the regular expression \s matches, among those modelled
IsSpace(c) == c \in {" ", "\t", "\n"}

\* [a-z0-9]
IsSlugChar(c) == c \in Range(LowerChars) \cup Range(DigitChars)

\* String.prototype.toLowerCase, one character
LowerChar(c) ==
  IF c \in Range(UpperChars)
    THEN LowerChars[CHOOSE i \in DOMAIN UpperChars : UpperChars[i] = c]
    ELSE c

toLowerCase(s) == [i \in DOMAIN s |-> LowerChar(s[i])]

\* String.prototype.trim
trim(s) ==
  LET keep == {i \in DOMAIN s : ~IsSpace(s[i])}
  IN  IF keep = {} THEN <<>> ELSE SubSeq(s, SetMin(keep), SetMax(keep))

\* the subsequence of s at the positions in keep, each character through f
RECURSIVE PickFrom(_, _, _)
PickFrom(s, keep, i) ==
  IF i > Len(s) THEN <<>>
  ELSE IF i \in keep THEN <<s[i]>> \o PickFrom(s, keep, i + 1)
  ELSE PickFrom(s, keep, i + 1)

\* s.replace(/\s+/g, " ")
CollapseSpaces(s) ==
  LET t    == [i \in DOMAIN s |-> IF IsSpace(s[i]) THEN " " ELSE s[i]]
      keep == {i \in DOMAIN s : ~IsSpace(s[i]) \/ i = 1 \/ ~IsSpace(s[i - 1])}
  IN  PickFrom(t, keep, 1)

normalizeName(s) == CollapseSpaces(trim(s))

\* s.replace(/['"]/g, "")
StripQuotes(s) == SelectSeq(s, LAMBDA c : c \notin {"'", "\""})

\* s.replace(/[^a-z0-9]+/g, "-")
DashRuns(s) ==
  LET t    == [i \in DOMAIN s |-> IF IsSlugChar(s[i]) THEN s[i] ELSE "-"]
      keep == {i \in DOMAIN s : IsSlugChar(s[i]) \/ i = 1 \/ IsSlugChar(s[i - 1])}
  IN  PickFrom(t, keep, 1)

\* s.replace(/^-+|-+$/g, "")
StripDashes(s) ==
  LET keep == {i \in DOMAIN s : s[i] # "-"}
  IN  IF keep = {} THEN <<>> ELSE SubSeq(s, SetMin(keep), SetMax(keep))

\* slugify, lines 13-18: each replacement works on the result of the one
\* before it
slugify(input) ==
  CHOOSE slug \in
    {StripDashes(dashed) : dashed \in
      {DashRuns(bare) : bare \in
        {StripQuotes(lower) : lower \in
          {toLowerCase(trimmed) : trimmed \in {trim(input)}}}}} : TRUE

\* n copies of the character c
Rep(c, n) == [i \in 1..n |-> c]

(***************************************************************************)
(* Random values.                                                          *)
(***************************************************************************)
\* the values of crypto.randomBytes(2).toString("hex") the model draws
HexSuffixes == {<<"0", "0", "0", DigitChars[d]>> : d \in 1..MaxSuffix}

\* the n-th value returned by crypto.randomUUID(), which never repeats
UUID(n) == <<"uuid", DigitChars[(n \div 10) + 1], DigitChars[(n % 10) + 1]>>

\* uniqueId from iteration i of its loop on: the ids it can return
RECURSIVE UniqueIdLoop(_, _, _, _)
UniqueIdLoop(base, used, fresh, i) ==
  IF i >= 10 THEN {fresh}
  ELSE LET candidates == {base \o <<"-">> \o sfx : sfx \in HexSuffixes}
       IN  (candidates \ used)
             \cup (IF candidates \cap used # {}
                     THEN UniqueIdLoop(base, used, fresh, i + 1)
                     ELSE {})

\* uniqueId without the random identifier after the loop: it goes on drawing
\* suffixes, and returns nothing when every suffix is taken
uniqueIdNoFallback(base, used, fresh) ==
  IF base \notin used THEN {base}
  ELSE {base \o <<"-">> \o sfx : sfx \in HexSuffixes} \ used

\* uniqueId without the test of line 22
uniqueIdUnchecked(base, used, fresh) == {base}

\* the ids uniqueId(base, used) can return; fresh is what randomUUID() returns
uniqueId(base, used, fresh) ==
  IF base \notin used THEN {base} ELSE UniqueIdLoop(base, used, fresh, 0)

(***************************************************************************)
(* The catalog document.                                                   *)
(***************************************************************************)
\* an optional field that is undefined (a string / a badge variant)
Undefined == <<"undefined">>
NoVariant == "undefined"

defaultCatalog(nowIso) ==
  [version |-> 1, updatedAt |-> nowIso, categories |-> <<>>, products |-> <<>>]

Category(id, name, createdAt) ==
  [id |-> id, name |-> name, createdAt |-> createdAt]

CategoryIds(catalog) == {c.id : c \in Range(catalog.categories)}
ProductIds(catalog) == {p.id : p \in Range(catalog.products)}

(***************************************************************************)
(* JSON.stringify(next, null, 2) + "\n" and JSON.parse.                    *)
(* A serialization is kept as the value JSON.parse gives back for it       *)
(* (undefined fields are not written) together with its length in          *)
(* characters.                                                             *)
(***************************************************************************)
\* any other JSON text, kept as the value JSON.parse gives back for it
JNull == [type |-> "null"]
JNumber(n) == [type |-> "number", value |-> n]
JString(s) == [type |-> "string", value |-> s]
JArray(items) == [type |-> "array", items |-> items]
JObject(fields) == [type |-> "object", fields |-> fields]

\* a product as JSON holds it: keys whose value is undefined are dropped
JsonProduct(p) ==
  LET keys == {k \in DOMAIN p :
                 /\ ~(k = "badgeText" /\ p[k] = Undefined)
                 /\ ~(k = "badgeVariant" /\ p[k] = NoVariant)}
  IN  [k \in keys |-> p[k]]

JsonDoc(doc) ==
  [doc EXCEPT !.products = [i \in DOMAIN doc.products |-> JsonProduct(doc.products[i])]]

\* length of a JSON string literal
JsonStrLen(s) ==
  2 + Len(s) + Cardinality({i \in DOMAIN s : s[i] \in {"\"", "\\", "\t", "\n"}})

\* an ISO timestamp as a JSON string literal
JsonTimeLen == 26

RECURSIVE SumSeq(_)
SumSeq(s) == IF s = <<>> THEN 0 ELSE Head(s) + SumSeq(Tail(s))

\* one `"key": value` line at indentation 6, without the separator after it
JsonFieldLen(keyLen, valueLen) == 6 + keyLen + 2 + 2 + valueLen

JsonCategoryLen(c) ==
  IF c = JNull THEN 6 + 4 ELSE
  6 + (JsonFieldLen(2, JsonStrLen(c.id)) + 2)
    + (JsonFieldLen(4, JsonStrLen(c.name)) + 2)
    + (JsonFieldLen(9, JsonTimeLen) + 1)
    + 5

\* a badge variant is written as its name in quotes
VariantLen(v) == IF v = "hot" THEN 5 ELSE 9

JsonProductLen(p) ==
  6 + (JsonFieldLen(2, JsonStrLen(p.id)) + 2)
    + (JsonFieldLen(10, JsonStrLen(p.categoryId)) + 2)
    + (JsonFieldLen(4, JsonStrLen(p.name)) + 2)
    + (JsonFieldLen(11, JsonStrLen(p.description)) + 2)
    + (JsonFieldLen(10, JsonStrLen(p.priceLabel)) + 2)
    + (JsonFieldLen(8, JsonStrLen(p.imageUrl)) + 2)
    + (JsonFieldLen(8, JsonStrLen(p.imageAlt)) + 2)
    + (IF "badgeText" \in DOMAIN p
         THEN JsonFieldLen(9, JsonStrLen(p.badgeText)) + 2 ELSE 0)
    + (IF "badgeVariant" \in DOMAIN p
         THEN JsonFieldLen(12, VariantLen(p.badgeVariant)) + 2 ELSE 0)
    + (JsonFieldLen(9, JsonTimeLen) + 1)
    + 5

\* an array at indentation 2 whose entries have the given lengths
JsonArrayLen(lens) ==
  IF lens = <<>> THEN 2 ELSE 2 + SumSeq(lens) + 2 * (Len(lens) - 1) + 4

JsonLen(jdoc) ==
  2 + 16 + (IF "updatedAt" \in DOMAIN jdoc THEN 15 + JsonTimeLen + 2 ELSE 0)
    + (16 + JsonArrayLen([i \in DOMAIN jdoc.categories |->
                            JsonCategoryLen(jdoc.categories[i])]) + 2)
    + (14 + JsonArrayLen([i \in DOMAIN jdoc.products |->
                            JsonProductLen(jdoc.products[i])]) + 1)
    + 2

\* what a file holds: nothing yet (opened, not written), one complete
\* serialization, or a shorter serialization written over a longer one
EmptyFile == [kind |-> "empty", len |-> 0]
JsonFile(jdoc) == [kind |-> "json", doc |-> jdoc, len |-> JsonLen(jdoc)]
GarbageFile(n) == [kind |-> "garbage", len |-> n]
ValueFile(value, n) == [kind |-> "value", value |-> value, len |-> n]

\* the payload writeCatalog builds for next
Payload(next) == JsonFile(JsonDoc(next))

\* fs.writeFile's write of payload at offset 0 of a file holding old
WriteOver(old, payload) ==
  IF payload.len >= old.len THEN payload ELSE GarbageFile(old.len)

(***************************************************************************)
(* new URL(imageUrl): the protocol of the parsed URL, or "invalid" when    *)
(* the constructor throws.  A URL without a base needs a scheme; the       *)
(* schemes with an authority need a host.                                  *)
(***************************************************************************)
SchemeChars ==
  Range(LowerChars) \cup Range(DigitChars) \cup {"+", "-", "."}

\* http:, https:, ws:, wss: and ftp: need a host
HostSchemes ==
  {<<"h","t","t","p">>, <<"h","t","t","p","s">>, <<"w","s">>, <<"w","s","s">>,
   <<"f","t","p">>}

UrlProtocol(s) ==
  LET colons == {i \in DOMAIN s : s[i] = ":"}
  IN  IF colons = {} THEN "invalid"
      ELSE
        LET k      == SetMin(colons)
            scheme == toLowerCase(SubSeq(s, 1, k - 1))
            rest   == SubSeq(s, k + 1, Len(s))
            body   == {i \in DOMAIN rest : rest[i] \notin {"/", "\\"}}
            host   == IF body = {} THEN <<>>
                      ELSE LET b    == SetMin(body)
                               ends == {i \in DOMAIN rest :
                                          i > b /\ rest[i] \in {"/", "\\", "?", "#"}}
                           IN  SubSeq(rest, b,
                                 IF ends = {} THEN Len(rest) ELSE SetMin(ends) - 1)
        IN  IF \/ scheme = <<>>
               \/ scheme[1] \notin Range(LowerChars)
               \/ \E i \in DOMAIN scheme : scheme[i] \notin SchemeChars
              THEN "invalid"
            ELSE IF /\ scheme \in HostSchemes
                    /\ (host = <<>> \/ \E i \in DOMAIN host : IsSpace(host[i]))
              THEN "invalid"
            ELSE scheme \o <<":">>

HttpsProtocol == <<"h","t","t","p","s",":">>

(***************************************************************************)
(* createProduct, lines 89-118: the fields as normalized and the message   *)
(* of the first rule that fails ("" when none does).                       *)
(***************************************************************************)
NormalizeProductInput(input) ==
  LET name == normalizeName(input.name)
  IN  [categoryId   |-> trim(input.categoryId),
       name         |-> name,
       description  |-> trim(input.description),
       priceLabel   |-> trim(input.priceLabel),
       imageUrl     |-> trim(input.imageUrl),
       imageAlt     |-> IF trim(input.imageAlt) = <<>> THEN name
                        ELSE trim(input.imageAlt),
       badgeText    |-> IF input.badgeText = Undefined \/ trim(input.badgeText) = <<>>
                          THEN Undefined ELSE trim(input.badgeText),
       badgeVariant |-> input.badgeVariant]

\* createProduct checking the badge variant before the image URL
ProductInputErrorBadgeFirst(f) ==
  IF f.categoryId = <<>> THEN "Category is required."
  ELSE IF f.name = <<>> THEN "Product name is required."
  ELSE IF Len(f.name) > 80 THEN "Product name is too long (max 80 chars)."
  ELSE IF f.description = <<>> THEN "Product description is required."
  ELSE IF Len(f.description) > 200
    THEN "Product description is too long (max 200 chars)."
  ELSE IF f.priceLabel = <<>> THEN "Price is required."
  ELSE IF Len(f.priceLabel) > 20 THEN "Price is too long."
  ELSE IF f.badgeVariant # NoVariant /\ f.badgeVariant # "default"
          /\ f.badgeVariant # "hot"
    THEN "Badge variant is invalid."
  ELSE IF f.imageUrl = <<>> THEN "Image URL is required."
  ELSE IF Len(f.imageUrl) > 2000 THEN "Image URL is too long."
  ELSE IF UrlProtocol(f.imageUrl) = "invalid" THEN "Image URL is invalid."
  ELSE IF UrlProtocol(f.imageUrl) # HttpsProtocol THEN "Image URL must be https."
  ELSE ""

ProductInputError(f) ==
  IF f.categoryId = <<>> THEN "Category is required."
  ELSE IF f.name = <<>> THEN "Product name is required."
  ELSE IF Len(f.name) > 80 THEN "Product name is too long (max 80 chars)."
  ELSE IF f.description = <<>> THEN "Product description is required."
  ELSE IF Len(f.description) > 200
    THEN "Product description is too long (max 200 chars)."
  ELSE IF f.priceLabel = <<>> THEN "Price is required."
  ELSE IF Len(f.priceLabel) > 20 THEN "Price is too long."
  ELSE IF f.imageUrl = <<>> THEN "Image URL is required."
  ELSE IF Len(f.imageUrl) > 2000 THEN "Image URL is too long."
  ELSE IF UrlProtocol(f.imageUrl) = "invalid" THEN "Image URL is invalid."
  ELSE IF UrlProtocol(f.imageUrl) # HttpsProtocol THEN "Image URL must be https."
  ELSE IF f.badgeVariant # NoVariant /\ f.badgeVariant # "default"
          /\ f.badgeVariant # "hot"
    THEN "Badge variant is invalid."
  ELSE ""

\* createCategory, lines 36-38
CategoryNameError(name) ==
  IF name = <<>> THEN "Category name is required."
  ELSE IF Len(name) > 60 THEN "Category name is too long (max 60 chars)."
  ELSE ""

\* createProductAction, lines 67-88: the form's fields as handed to createProduct
ProductInputOfForm(form) ==
  [categoryId   |-> form.categoryId,
   name         |-> form.name,
   description  |-> form.description,
   priceLabel   |-> form.priceLabel,
   imageUrl     |-> form.imageUrl,
   imageAlt     |-> form.imageAlt,
   badgeText    |-> IF form.badgeText = <<>> THEN Undefined ELSE form.badgeText,
   badgeVariant |-> IF form.badgeVariant = "" THEN NoVariant ELSE form.badgeVariant]

(***************************************************************************)
(* The session cookie.                                                     *)
(* A cookie value is the sequence of its parts between dots.  A part is    *)
(* kept as what it decodes to: kind "data" is base64url text of a JSON     *)
(* text, kind "sig" base64url text of bytes; enc tells the text  apart     *)
(* from the other texts that Buffer.from(.., "base64url") decodes to the   *)
(* same bytes.  The HMAC of a text under a key is the term of both.        *)
(***************************************************************************)
SESSION_TTL_DAYS == 30

\* sessionSecret(), and a key that is not it
ServerSecret == "server-secret"
OtherSecret == "other-secret"

\* crypto.createHmac("sha256", key).update(data).digest()
Hmac(key, data) == [len |-> 32, mac |-> <<key, data>>]

\* sign leaving the data out of the HMAC
signWithoutData(dataB64Url) == Hmac(ServerSecret, <<>>)

sign(dataB64Url) == Hmac(ServerSecret, dataB64Url)

\* Buffer.toString("base64url")
Base64Url(bytes) == [kind |-> "sig", bytes |-> bytes, enc |-> "canonical"]

\* Buffer.from(part, "base64url")
Base64Bytes(part) ==
  IF part.kind = "sig" THEN part.bytes ELSE [len |-> 0, mac |-> <<"none", part>>]

encodePayload(payload) == [kind |-> "data", json |-> payload, enc |-> "canonical"]

Null == [null |-> TRUE]

\* JSON texts that are no object with a numeric exp decode to null
decodePayload(dataB64Url) ==
  IF dataB64Url.kind = "data" /\ "exp" \in DOMAIN dataB64Url.json
    THEN dataB64Url.json
    ELSE Null

timingSafeEqual(a, b) == IF a.len # b.len THEN FALSE ELSE a = b

\* process.env.BACKOFFICE_PASSWORD
BACKOFFICE_PASSWORD == "password"

\* the passwords posted to loginAction
PasswordInputs == {"password", "Password", "", "guess"}

sha256(input) == [len |-> 32, hash |-> input]

\* verifyBackofficePassword comparing the lengths of the digests only
verifyBackofficePasswordByLength(candidate) ==
  sha256(candidate).len = sha256(BACKOFFICE_PASSWORD).len

verifyBackofficePassword(candidate) ==
  timingSafeEqual(sha256(candidate), sha256(BACKOFFICE_PASSWORD))

\* the cookie value setBackofficeSessionCookie stores at time t
SessionValue(t) ==
  LET exp  == t + SESSION_TTL_DAYS
      data == encodePayload([exp |-> exp])
      sig  == Base64Url(sign(data))
  IN  <<data, sig>>

\* the request carries no cookie of that name
NoCookie == [present |-> FALSE, value |-> <<>>]
Cookie(value) == [present |-> TRUE, value |-> value]
\* the value clearBackofficeSessionCookie stores
EmptyValue == <<>>

\* isBackofficeAuthed accepting a token at the instant it expires
isBackofficeAuthedLate(cookie, time) ==
  IF ~cookie.present \/ cookie.value = EmptyValue THEN FALSE
  ELSE IF Len(cookie.value) # 2 THEN FALSE
  ELSE LET data        == cookie.value[1]
           sigB64      == cookie.value[2]
           expectedSig == sign(data)
           actualSig   == Base64Bytes(sigB64)
       IN  IF ~timingSafeEqual(actualSig, expectedSig) THEN FALSE
           ELSE LET payload == decodePayload(data)
                IN  IF payload = Null THEN FALSE
                    ELSE IF payload.exp < time THEN FALSE
                    ELSE TRUE

isBackofficeAuthed(cookie, time) ==
  IF ~cookie.present \/ cookie.value = EmptyValue THEN FALSE
  ELSE IF Len(cookie.value) # 2 THEN FALSE
  ELSE LET data        == cookie.value[1]
           sigB64      == cookie.value[2]
           expectedSig == sign(data)
           actualSig   == Base64Bytes(sigB64)
       IN  IF ~timingSafeEqual(actualSig, expectedSig) THEN FALSE
           ELSE LET payload == decodePayload(data)
                IN  IF payload = Null THEN FALSE
                    ELSE IF payload.exp <= time THEN FALSE
                    ELSE TRUE

(***************************************************************************)
(* Inputs.                                                                 *)
(***************************************************************************)
\* the requests being served at once
Procs == {"p1", "p2"}

\* the "name" field posted to createCategoryAction
CategoryNameInputs ==
  { <<>>,
    <<" ">>,
    Rep("a", 61),
    <<"A">>,
    <<" ", "a", " ">>,
    <<"A", "!">>,
    <<"a", " ", "\t", "?">>,
    <<"'", "!">> }

\* the "id" field posted to the delete actions, besides the ids in the catalog
IdInputs == { <<>>, <<"a">>, <<"p">>, <<"z">> }

GoodUrl == <<"h","t","t","p","s",":","/","/","x">>

BaseForm ==
  [categoryId |-> <<"a">>, name |-> <<"P">>, description |-> <<"d">>,
   priceLabel |-> <<"1">>, imageUrl |-> GoodUrl, imageAlt |-> <<>>,
   badgeText |-> <<>>, badgeVariant |-> ""]

\* the forms posted to createProductAction
ProductForms ==
  { BaseForm,
    [BaseForm EXCEPT !.badgeText = <<" ", "N", " ">>, !.badgeVariant = "hot",
                     !.imageAlt = <<"x">>],
    [BaseForm EXCEPT !.categoryId = <<" ">>],
    [BaseForm EXCEPT !.categoryId = <<"z">>],
    [BaseForm EXCEPT !.name = <<>>],
    [BaseForm EXCEPT !.name = Rep("n", 81)],
    [BaseForm EXCEPT !.description = <<" ">>],
    [BaseForm EXCEPT !.description = Rep("d", 201)],
    [BaseForm EXCEPT !.priceLabel = <<>>],
    [BaseForm EXCEPT !.priceLabel = Rep("9", 21)],
    [BaseForm EXCEPT !.imageUrl = <<>>],
    [BaseForm EXCEPT !.imageUrl = GoodUrl \o Rep("x", 1992)],
    [BaseForm EXCEPT !.imageUrl = <<"x">>],
    [BaseForm EXCEPT !.imageUrl = <<"h","t","t","p","s",":","/","/">>],
    [BaseForm EXCEPT !.imageUrl = <<"h","t","t","p",":","/","/","x">>],
    [BaseForm EXCEPT !.badgeVariant = "cold"],
    [BaseForm EXCEPT !.name = <<>>, !.imageUrl = <<"x">>] }

\* each form with what createProduct makes of it before it reads the catalog
CheckedProductForms ==
  { LET f == NormalizeProductInput(ProductInputOfForm(form))
    IN  [fields |-> f, error |-> ProductInputError(f)] : form \in ProductForms }

\* forms at the limits of the rules, and forms that break several rules
LimitForms ==
  { [BaseForm EXCEPT !.name = Rep("n", 80)],
    [BaseForm EXCEPT !.name = <<" ">> \o Rep("n", 80) \o <<" ">>],
    [BaseForm EXCEPT !.description = Rep("d", 200)],
    [BaseForm EXCEPT !.priceLabel = Rep("9", 20)],
    [BaseForm EXCEPT !.imageUrl = GoodUrl \o Rep("x", 1991)],
    [BaseForm EXCEPT !.imageUrl = <<"H","T","T","P","S",":","/","/","x">>],
    [BaseForm EXCEPT !.badgeVariant = "default"],
    [BaseForm EXCEPT !.categoryId = <<>>, !.name = <<>>, !.badgeVariant = "cold"],
    [BaseForm EXCEPT !.name = Rep("n", 81), !.description = <<>>],
    [BaseForm EXCEPT !.description = Rep("d", 201), !.priceLabel = <<>>],
    [BaseForm EXCEPT !.priceLabel = Rep("9", 21), !.imageUrl = <<>>],
    [BaseForm EXCEPT !.imageUrl = Rep("x", 2001)],
    [BaseForm EXCEPT !.imageUrl = <<"h","t","t","p",":","/","/","x">>,
                     !.badgeVariant = "cold"],
    [BaseForm EXCEPT !.imageUrl = <<"x">>, !.categoryId = <<"z">>],
    [BaseForm EXCEPT !.badgeVariant = "cold", !.categoryId = <<"z">>] }

LimitProductForms ==
  { LET f == NormalizeProductInput(ProductInputOfForm(form))
    IN  [fields |-> f, error |-> ProductInputError(f)] : form \in LimitForms }

\* each name with what createCategory makes of it before it reads the catalog
CheckedCategoryNames ==
  { LET name == normalizeName(raw)
    IN  [name |-> name, error |-> CategoryNameError(name)] :
    raw \in CategoryNameInputs }

\* a data part carrying exp = e, and a cookie value signed with key k
DataPart(e) == encodePayload([exp |-> e])
SignedValue(data, k, signedData) == <<data, Base64Url(Hmac(k, signedData))>>

\* the cookies a request to an admin action can carry: none, the cleared
\* one, one and three parts, issued ones (expired or not), one signed with
\* another key, one whose payload was altered after it was signed
RequestCookies ==
  {NoCookie, Cookie(EmptyValue), Cookie(<<DataPart(MaxTime + 1)>>)}
    \cup {Cookie(SignedValue(DataPart(e), ServerSecret, DataPart(e))) :
            e \in 0..(MaxTime + 1)}
    \cup {Cookie(SignedValue(DataPart(MaxTime + 1), ServerSecret, DataPart(MaxTime + 1))
                   \o <<DataPart(0)>>),
          Cookie(SignedValue(DataPart(MaxTime + 1), OtherSecret, DataPart(MaxTime + 1))),
          Cookie(SignedValue(DataPart(MaxTime + 1), ServerSecret, DataPart(0)))}

(***************************************************************************)
(* State.                                                                  *)
(***************************************************************************)
VARIABLES
  now,         \* Date.now(), in days
  canon,       \* what data/catalog.json holds
  tmp,         \* what data/catalog.json.tmp holds
  uuidCount,   \* how many values crypto.randomUUID() has returned
  started,     \* how many requests have been received
  pc,          \* where each request is
  req,         \* the admin action of each request and its arguments
  next,        \* the document each request hands to writeCatalog
  fd,          \* where the file each request has open for writing is linked
  outcome,     \* how each request ended
  authed,      \* what isBackofficeAuthed returned to each request
  cookieKind,  \* what kind of cookie each request carried
  wrote,       \* whether each request has called writeCatalog
  before,      \* what catalog.json held when the last request arrived (SeqSpec)
  jar,         \* the browser's cookie (AuthSpec)
  issuedAt,    \* when the cookie in the jar was issued, -1 if it was not
  verdict,     \* the last call of isBackofficeAuthed on the jar (AuthSpec)
  lastAct,     \* the last call of loginAction or logoutAction
  held,        \* a cookie value the client copied from its jar (TokenSpec)
  presented,   \* the last cookie a client presented, and the answer (TokenSpec)
  got,         \* the last call of readCatalog or getPublicCatalog (StoreSpec)
  first        \* what the first read of a round trip returned (StoreSpec)

catalogVars == <<canon, tmp, uuidCount, started, pc, req, next, fd, outcome,
                 authed, cookieKind, wrote, before>>
authVars == <<jar, issuedAt, verdict, lastAct, held, presented>>
viewVars == <<got, first>>
vars == <<now, canon, tmp, uuidCount, started, pc, req, next, fd, outcome,
          authed, cookieKind, wrote, before, jar, issuedAt, verdict,
          lastAct, held, presented, got, first>>

AbsentFile == [kind |-> "absent", len |-> 0]
NoDoc == [none |-> TRUE]
NoReq == [op |-> "none", engine |-> FALSE]
NoOutcome == [kind |-> "none", message |-> ""]
Ok == [kind |-> "ok", message |-> ""]
\* redirect("/backoffice?error=auth-required")
Denied == [kind |-> "denied", message |-> "auth-required"]
\* redirectWithError(message)
Failed(message) == [kind |-> "error", message |-> message]
\* an exception nothing catches
Thrown(message) == [kind |-> "throw", message |-> message]

\* no call of isBackofficeAuthed yet
NoVerdict == [at |-> 0 - 1, issued |-> 0 - 1, value |-> FALSE]

\* no call of loginAction or logoutAction yet, and the two calls
NoAct == [op |-> "none", password |-> ""]
LoginAct(password) == [op |-> "login", password |-> password]
LogoutAct == [op |-> "logout", password |-> ""]

\* no call of readCatalog or getPublicCatalog yet
NoCall == [op |-> "none"]

\* no cookie presented yet
NoPresented == [cookie |-> NoCookie, jar |-> NoCookie, at |-> 0 - 1, value |-> FALSE]

ActionNames ==
  {"createCategory", "deleteCategory", "createProduct", "deleteProduct"}

\* the actions that call the engine inside try/catch
Catches(op) == op \in {"createCategory", "createProduct"}

\* how a request ends when the engine throws message
Raised(op, message) == IF Catches(op) THEN Failed(message) ELSE Thrown(message)

\* what kind of cookie a request carries (for the record, not used by the code)
KindOfCookie(cookie, time) ==
  IF ~cookie.present THEN "absent"
  ELSE IF cookie.value = EmptyValue THEN "cleared"
  ELSE IF Len(cookie.value) # 2 THEN "malformed"
  ELSE IF cookie.value[2].bytes.mac # <<ServerSecret, cookie.value[1]>> THEN "wrongly signed"
  ELSE IF cookie.value[1].json.exp <= time THEN "expired"
  ELSE "good"


(***************************************************************************)
(* The catalog store.                                                      *)
(***************************************************************************)
\* readCatalog on a file: the catalog it returns, or the error it throws
\* Array.isArray(parsed[key]) for a parsed object
IsArrayField(parsed, key) ==
  key \in DOMAIN parsed.fields /\ parsed.fields[key].type = "array"

readCatalog(file, nowIso) ==
  IF file.kind = "absent"
    THEN [ok |-> TRUE, catalog |-> defaultCatalog(nowIso)]
  ELSE IF file.kind = "json"
    THEN IF file.doc.version # 1
           THEN [ok |-> TRUE, catalog |-> defaultCatalog(nowIso)]
           ELSE [ok |-> TRUE, catalog |-> file.doc]
  ELSE IF file.kind = "value"
    THEN LET parsed == file.value
         IN  IF \/ parsed.type # "object"
                \/ "version" \notin DOMAIN parsed.fields
                \/ parsed.fields.version.type # "number"
                \/ parsed.fields.version.value # 1
                \/ ~IsArrayField(parsed, "categories")
                \/ ~IsArrayField(parsed, "products")
               THEN [ok |-> TRUE, catalog |-> defaultCatalog(nowIso)]
               ELSE [ok |-> TRUE,
                     catalog |-> [version    |-> 1,
                                  categories |-> parsed.fields.categories.items,
                                  products   |-> parsed.fields.products.items]]
  ELSE [ok |-> FALSE, message |-> "SyntaxError"]

(***************************************************************************)
(* The mutation engine: the document each operation derives.               *)
(***************************************************************************)
\* createCategory comparing the names as they are
CategoryExistsCaseSensitive(catalog, name) ==
  \E c \in Range(catalog.categories) : c.name = name

\* createCategory, line 41
CategoryExists(catalog, name) ==
  \E c \in Range(catalog.categories) : toLowerCase(c.name) = toLowerCase(name)

\* createCategory building next from an empty document
createCategoryNextFromDefault(catalog, id, name, createdAt) ==
  [defaultCatalog(createdAt) EXCEPT
     !.categories = Append(catalog.categories, Category(id, name, createdAt))]

\* createCategory, lines 48-55
createCategoryNext(catalog, id, name, createdAt) ==
  [catalog EXCEPT !.updatedAt = createdAt,
                  !.categories = Append(catalog.categories,
                                        Category(id, name, createdAt))]

\* deleteCategory with the products filtered by their own id
deleteCategoryNextByProductId(catalog, categoryId, updatedAt) ==
  [catalog EXCEPT !.updatedAt = updatedAt,
                  !.categories = SelectSeq(catalog.categories,
                                           LAMBDA c : c.id # categoryId),
                  !.products = SelectSeq(catalog.products,
                                         LAMBDA q : q.id # categoryId)]

\* deleteCategory, lines 63-73
deleteCategoryNext(catalog, categoryId, updatedAt) ==
  [catalog EXCEPT !.updatedAt = updatedAt,
                  !.categories = SelectSeq(catalog.categories,
                                           LAMBDA c : c.id # categoryId),
                  !.products = SelectSeq(catalog.products,
                                         LAMBDA q : q.categoryId # categoryId)]

\* createProduct, lines 128-140
Product(id, f, createdAt) ==
  [id |-> id, categoryId |-> f.categoryId, name |-> f.name,
   description |-> f.description, priceLabel |-> f.priceLabel,
   imageUrl |-> f.imageUrl, imageAlt |-> f.imageAlt, badgeText |-> f.badgeText,
   badgeVariant |-> f.badgeVariant, createdAt |-> createdAt]

\* createProduct, lines 142-146
createProductNext(catalog, id, f, createdAt) ==
  [catalog EXCEPT !.updatedAt = createdAt,
                  !.products = Append(catalog.products, Product(id, f, createdAt))]

\* deleteProduct, lines 154-158
deleteProductNext(catalog, productId, updatedAt) ==
  [catalog EXCEPT !.updatedAt = updatedAt,
                  !.products = SelectSeq(catalog.products,
                                         LAMBDA q : q.id # productId)]

(***************************************************************************)
(* The initial state.                                                      *)
(***************************************************************************)
\* the catalog after createCategory("A"), createCategory("A!") and a
\* createProduct in each of the two categories, all at time 0
SeedCatalog ==
  LET f  == NormalizeProductInput(ProductInputOfForm(BaseForm))
      c1 == createCategoryNext(defaultCatalog(0), <<"a">>, <<"A">>, 0)
      c2 == createCategoryNext(c1, <<"a", "-", "0", "0", "0", "0">>, <<"A", "!">>, 0)
      c3 == createProductNext(c2, <<"p">>, f, 0)
  IN  createProductNext(c3, <<"p", "-", "0", "0", "0", "0">>,
                        [f EXCEPT !.categoryId = <<"a", "-", "0", "0", "0", "0">>], 0)

\* what catalog.json holds when SeqSpec starts: nothing, or that catalog
SeedFiles == {AbsentFile, Payload(SeedCatalog)}

InitFrom(files) ==
  /\ now = 0
  /\ canon \in files
  /\ tmp = AbsentFile
  /\ uuidCount = 0
  /\ started = 0
  /\ pc = [p \in Procs |-> "idle"]
  /\ req = [p \in Procs |-> NoReq]
  /\ next = [p \in Procs |-> NoDoc]
  /\ fd = [p \in Procs |-> "none"]
  /\ outcome = [p \in Procs |-> NoOutcome]
  /\ authed = [p \in Procs |-> FALSE]
  /\ cookieKind = [p \in Procs |-> "none"]
  /\ wrote = [p \in Procs |-> FALSE]
  /\ before = AbsentFile
  /\ jar = NoCookie
  /\ issuedAt = 0 - 1
  /\ verdict = NoVerdict
  /\ lastAct = NoAct
  /\ held = EmptyValue
  /\ presented = NoPresented
  /\ got = NoCall
  /\ first = NoDoc

Init == InitFrom({AbsentFile})

(***************************************************************************)
(* Requests.                                                               *)
(***************************************************************************)
\* requireAuth without the redirect
requireAuthSkipped(isAuthed) == TRUE

\* requireAuth lets the request through
requireAuth(isAuthed) == isAuthed

\* a request ends
Finish(p, out) ==
  /\ pc' = [pc EXCEPT ![p] = "done"]
  /\ outcome' = [outcome EXCEPT ![p] = out]

\* a request is received and ends before the engine reads the catalog
Reject(p, r, out) ==
  /\ Finish(p, out)
  /\ req' = [req EXCEPT ![p] = r]

\* a request is received and the engine goes on to read the catalog
Accept(p, r) ==
  /\ pc' = [pc EXCEPT ![p] = "read"]
  /\ outcome' = [outcome EXCEPT ![p] = NoOutcome]
  /\ req' = [req EXCEPT ![p] = r]

\* createCategoryAction, up to createCategory's readCatalog
BeginCreateCategory(p, names) ==
  \E c \in names :
    IF c.error # ""
      THEN Reject(p, [op |-> "createCategory", engine |-> TRUE], Failed(c.error))
      ELSE Accept(p, [op |-> "createCategory", engine |-> TRUE, name |-> c.name])

\* createProductAction, up to createProduct's readCatalog
BeginCreateProduct(p, forms, known) ==
  \E c \in forms, listed \in {<<>>} \cup known :
    IF c.error # ""
      THEN Reject(p, [op |-> "createProduct", engine |-> TRUE, fields |-> c.fields],
                  Failed(c.error))
      ELSE Accept(p, [op |-> "createProduct", engine |-> TRUE,
                      fields |-> IF listed = <<>> THEN c.fields
                                 ELSE [c.fields EXCEPT !.categoryId = listed]])

\* deleteCategoryAction and deleteProductAction, up to the engine's readCatalog
BeginDelete(p, op, known) ==
  \E id \in IdInputs \cup known :
    IF id = <<>>
      THEN Reject(p, [op |-> op, engine |-> FALSE],
                  Failed(IF op = "deleteCategory" THEN "Missing category id."
                         ELSE "Missing product id."))
      ELSE Accept(p, [op |-> op, engine |-> TRUE, id |-> id])

\* the ids an admin sees listed
ListedIds(file, field) ==
  IF file.kind = "json" THEN {e.id : e \in Range(file.doc[field])} ELSE {}

\* one of the four admin actions is called with a cookie and a form
Receive(p, limit, cookies, names, forms) ==
  /\ pc[p] \in {"idle", "done"}
  /\ started < limit
  /\ started' = started + 1
  /\ next' = [next EXCEPT ![p] = NoDoc]
  /\ wrote' = [wrote EXCEPT ![p] = FALSE]
  /\ \E cookie \in cookies :
       LET isAuthed == isBackofficeAuthed(cookie, now)
       IN  /\ authed' = [authed EXCEPT ![p] = isAuthed]
           /\ cookieKind' = [cookieKind EXCEPT ![p] = KindOfCookie(cookie, now)]
           /\ IF ~requireAuth(isAuthed)
                THEN \E op \in ActionNames :
                       Reject(p, [op |-> op, engine |-> FALSE], Denied)
                ELSE \/ BeginCreateCategory(p, names)
                     \/ BeginCreateProduct(p, forms, ListedIds(canon, "categories"))
                     \/ BeginDelete(p, "deleteCategory", ListedIds(canon, "categories"))
                     \/ BeginDelete(p, "deleteProduct", ListedIds(canon, "products"))
  /\ UNCHANGED <<now, canon, tmp, uuidCount, fd, authVars, viewVars>>

\* the inputs of the requests that are served at once
RaceCookies ==
  {NoCookie, Cookie(SignedValue(DataPart(MaxTime + 1), ServerSecret, DataPart(MaxTime + 1)))}
RaceNames ==
  {c \in CheckedCategoryNames :
     c.name \in {<<>>, <<"A">>, <<"a">>, <<"A", "!">>, <<"a", " ", "?">>}}
RaceForms ==
  {c \in CheckedProductForms :
     \/ c.error = "Image URL must be https."
     \/ c.error = "" /\ c.fields.badgeText = Undefined}

\* a request arrives while others may be in progress
Request(p) ==
  /\ Receive(p, MaxOps, RaceCookies, RaceNames, RaceForms)
  /\ UNCHANGED before

\* a request arrives when no other is in progress
SeqRequest(p) ==
  /\ \A q \in Procs \ {p} : pc[q] = "idle"
  /\ Receive(p, MaxSeqOps, RequestCookies, CheckedCategoryNames, CheckedProductForms)
  /\ before' = canon

\* a createProductAction or a delete arrives from a signed-in admin when no
\* other request is in progress
ProductRequest(p) ==
  /\ \A q \in Procs \ {p} : pc[q] = "idle"
  /\ Receive(p, MaxProductOps,
             {Cookie(SignedValue(DataPart(MaxTime + 1), ServerSecret,
                                 DataPart(MaxTime + 1)))},
             {}, CheckedProductForms \cup LimitProductForms)
  /\ before' = canon

\* the names of the categories whose ids collide: all but the last have
\* the slug "a"
IdNames ==
  { LET name == normalizeName(raw)
    IN  [name |-> name, error |-> CategoryNameError(name)] :
    raw \in {<<"A">>, <<"A", "!">>, <<"a", "?">>, <<"a", ".">>, <<"!">>} }

\* a createCategoryAction or a delete arrives from a signed-in admin when no
\* other request is in progress
IdRequest(p) ==
  /\ \A q \in Procs \ {p} : pc[q] = "idle"
  /\ Receive(p, MaxIdOps,
             {Cookie(SignedValue(DataPart(MaxTime + 1), ServerSecret,
                                 DataPart(MaxTime + 1)))},
             IdNames, {})
  /\ before' = canon

\* the engine has the catalog and goes on to writeCatalog(doc)
CallWrite(p, doc) ==
  /\ pc' = [pc EXCEPT ![p] = "open"]
  /\ next' = [next EXCEPT ![p] = doc]
  /\ wrote' = [wrote EXCEPT ![p] = TRUE]
  /\ UNCHANGED outcome

\* the engine has the catalog and returns or throws without writing
Return(p, out) ==
  /\ Finish(p, out)
  /\ UNCHANGED <<next, wrote, uuidCount>>

\* createCategory, lines 40-56
ReadCreateCategory(p, catalog) ==
  LET name == req[p].name
  IN  IF CategoryExists(catalog, name)
        THEN Return(p, Failed("Category already exists."))
        ELSE
          LET slug     == slugify(name)
              drawn    == IF slug = <<>> THEN 1 ELSE 0
              baseId   == IF slug = <<>> THEN UUID(uuidCount) ELSE slug
              fresh    == UUID(uuidCount + drawn)
          IN  \E id \in uniqueId(baseId, CategoryIds(catalog), fresh) :
                /\ uuidCount' = uuidCount + drawn + (IF id = fresh THEN 1 ELSE 0)
                /\ CallWrite(p, createCategoryNext(catalog, id, name, now))

\* deleteCategory without the early return of line 64
ReadDeleteCategoryAlwaysWrites(p, catalog) ==
  CallWrite(p, deleteCategoryNext(catalog, req[p].id, now)) /\ UNCHANGED uuidCount

\* deleteCategory, lines 61-74
ReadDeleteCategory(p, catalog) ==
  LET doc == deleteCategoryNext(catalog, req[p].id, now)
  IN  IF Len(doc.categories) = Len(catalog.categories)
        THEN Return(p, Ok)
        ELSE CallWrite(p, doc) /\ UNCHANGED uuidCount

\* createProduct without the check of line 122
CategoryIdExistsUnchecked(catalog, categoryId) == TRUE

\* createProduct, line 121
CategoryIdExists(catalog, categoryId) ==
  \E c \in Range(catalog.categories) : c.id = categoryId

\* createProduct, lines 120-147
ReadCreateProduct(p, catalog) ==
  LET f == req[p].fields
  IN  IF ~CategoryIdExists(catalog, f.categoryId)
        THEN Return(p, Failed("Category does not exist."))
        ELSE
          LET slug     == slugify(f.name)
              drawn    == IF slug = <<>> THEN 1 ELSE 0
              baseId   == IF slug = <<>> THEN UUID(uuidCount) ELSE slug
              fresh    == UUID(uuidCount + drawn)
          IN  \E id \in uniqueId(baseId, ProductIds(catalog), fresh) :
                /\ uuidCount' = uuidCount + drawn + (IF id = fresh THEN 1 ELSE 0)
                /\ CallWrite(p, createProductNext(catalog, id, f, now))

\* deleteProduct, lines 152-159
ReadDeleteProduct(p, catalog) ==
  LET doc == deleteProductNext(catalog, req[p].id, now)
  IN  IF Len(doc.products) = Len(catalog.products)
        THEN Return(p, Ok)
        ELSE CallWrite(p, doc) /\ UNCHANGED uuidCount

\* the engine's readCatalog returns and the engine runs up to its writeCatalog
Read(p) ==
  /\ pc[p] = "read"
  /\ LET r == readCatalog(canon, now)
     IN  IF ~r.ok
           THEN /\ Finish(p, Raised(req[p].op, r.message))
                /\ UNCHANGED <<next, wrote, uuidCount>>
           ELSE CASE req[p].op = "createCategory" -> ReadCreateCategory(p, r.catalog)
                  [] req[p].op = "deleteCategory" -> ReadDeleteCategory(p, r.catalog)
                  [] req[p].op = "createProduct" -> ReadCreateProduct(p, r.catalog)
                  [] req[p].op = "deleteProduct" -> ReadDeleteProduct(p, r.catalog)
  /\ UNCHANGED <<now, canon, tmp, started, req, fd, authed, cookieKind, before,
                 authVars, viewVars>>

\* writeCatalog, lines 36-41: mkdir, and writeFile opens the temporary path
\* for writing, which creates the file or empties the one that is there
Open(p) ==
  /\ pc[p] = "open"
  /\ tmp' = EmptyFile
  /\ fd' = [fd EXCEPT ![p] = "tmp"]
  /\ pc' = [pc EXCEPT ![p] = "write"]
  /\ UNCHANGED <<now, canon, uuidCount, started, req, next, outcome, authed,
                 cookieKind, wrote, before, authVars, viewVars>>

\* writeCatalog, line 41: writeFile writes the payload to the file it opened,
\* wherever that file is linked by now, and closes it
Write(p) ==
  /\ pc[p] = "write"
  /\ CASE fd[p] = "tmp" ->
            tmp' = WriteOver(tmp, Payload(next[p])) /\ UNCHANGED canon
       [] fd[p] = "canon" ->
            canon' = WriteOver(canon, Payload(next[p])) /\ UNCHANGED tmp
       [] OTHER -> UNCHANGED <<canon, tmp>>
  /\ fd' = [fd EXCEPT ![p] = "none"]
  /\ pc' = [pc EXCEPT ![p] = "rename"]
  /\ UNCHANGED <<now, uuidCount, started, req, next, outcome, authed,
                 cookieKind, wrote, before, authVars, viewVars>>

\* a rename that leaves a canonical file that is there in place
RenameNoReplace(p) ==
  /\ pc[p] = "rename"
  /\ IF tmp.kind = "absent"
       THEN /\ Finish(p, Raised(req[p].op, "ENOENT"))
            /\ UNCHANGED <<canon, tmp, fd>>
       ELSE /\ canon' = IF canon.kind = "absent" THEN tmp ELSE canon
            /\ tmp' = AbsentFile
            /\ fd' = [q \in Procs |-> IF fd[q] = "tmp" THEN "unlinked" ELSE fd[q]]
            /\ Finish(p, Ok)
  /\ next' = [next EXCEPT ![p] = NoDoc]
  /\ UNCHANGED <<now, uuidCount, started, req, authed, cookieKind, wrote, before, authVars, viewVars>>

\* createCategory with the test of line 42 made after writeCatalog
RenameThenCheck(p) ==
  /\ pc[p] = "rename"
  /\ IF tmp.kind = "absent"
       THEN /\ Finish(p, Raised(req[p].op, "ENOENT"))
            /\ UNCHANGED <<canon, tmp, fd>>
       ELSE /\ canon' = tmp
            /\ tmp' = AbsentFile
            /\ fd' = [q \in Procs |->
                        IF fd[q] = "tmp" THEN "canon"
                        ELSE IF fd[q] = "canon" THEN "unlinked"
                        ELSE fd[q]]
            /\ Finish(p, IF /\ req[p].op = "createCategory"
                            /\ tmp.kind = "json"
                            /\ CategoryExists(tmp.doc, req[p].name)
                           THEN Failed("Category already exists.")
                           ELSE Ok)
  /\ next' = [next EXCEPT ![p] = NoDoc]
  /\ UNCHANGED <<now, uuidCount, started, req, authed, cookieKind, wrote, before, authVars, viewVars>>

\* writeCatalog, line 42: rename of the temporary path over the canonical one
Rename(p) ==
  /\ pc[p] = "rename"
  /\ IF tmp.kind = "absent"
       THEN /\ Finish(p, Raised(req[p].op, "ENOENT"))
            /\ UNCHANGED <<canon, tmp, fd>>
       ELSE /\ canon' = tmp
            /\ tmp' = AbsentFile
            /\ fd' = [q \in Procs |->
                        IF fd[q] = "tmp" THEN "canon"
                        ELSE IF fd[q] = "canon" THEN "unlinked"
                        ELSE fd[q]]
            /\ Finish(p, Ok)
  /\ next' = [next EXCEPT ![p] = NoDoc]
  /\ UNCHANGED <<now, uuidCount, started, req, authed, cookieKind, wrote, before, authVars, viewVars>>

\* time passes
Tick ==
  /\ now < MaxTime
  /\ now' = now + 1
  /\ UNCHANGED <<catalogVars, authVars, viewVars>>

Next ==
  \/ \E p \in Procs : Request(p)
  \/ \E p \in Procs : Read(p)
  \/ \E p \in Procs : Open(p)
  \/ \E p \in Procs : Write(p)
  \/ \E p \in Procs : Rename(p)

Spec == Init /\ [][Next]_vars

(***************************************************************************)
(* The session: login, logout and the check of the browser's cookie.       *)
(***************************************************************************)
\* loginAction
Login ==
  /\ \E password \in PasswordInputs :
       /\ lastAct' = LoginAct(password)
       /\ IF ~verifyBackofficePassword(password)
            THEN UNCHANGED <<jar, issuedAt>>
            ELSE /\ jar' = Cookie(SessionValue(now))
                 /\ issuedAt' = now
  /\ UNCHANGED <<now, catalogVars, viewVars, verdict, held, presented>>

\* logoutAction leaving the cookie of the browser as it is
LogoutKeepingCookie ==
  /\ lastAct' = LogoutAct
  /\ UNCHANGED <<now, catalogVars, viewVars, jar, issuedAt, verdict, held, presented>>

\* logoutAction
Logout ==
  /\ jar' = Cookie(EmptyValue)
  /\ issuedAt' = 0 - 1
  /\ lastAct' = LogoutAct
  /\ UNCHANGED <<now, catalogVars, viewVars, verdict, held, presented>>

\* a request presents the browser's cookie and isBackofficeAuthed checks it
CheckAuth ==
  /\ verdict' = [at |-> now, issued |-> issuedAt,
                 value |-> isBackofficeAuthed(jar, now)]
  /\ UNCHANGED <<now, catalogVars, viewVars, jar, issuedAt, lastAct, held, presented>>

\* a day passes
AuthTick ==
  /\ now < MaxAuthTime
  /\ now' = now + 1
  /\ UNCHANGED <<catalogVars, authVars, viewVars>>

AuthNext ==
  \/ Login
  \/ Logout
  \/ CheckAuth
  \/ AuthTick

AuthSpec == Init /\ [][AuthNext]_vars

(***************************************************************************)
(* The session seen from a client that keeps and alters cookie values.     *)
(***************************************************************************)
\* the cookie values a client holds: the one in its jar, the one it copied
Known == {v \in {jar.value, held} : Len(v) = 2}

\* what a client without the secret can make of a value it holds: the
\* payload replaced by one that expires later, either part written as
\* another text that decodes to the same bytes, a signature under a key of
\* its own, a shortened signature, a part repeated
Alterations(v) ==
  LET data  == v[1]
      sig   == v[2]
      later == encodePayload([exp |-> data.json.exp + SESSION_TTL_DAYS])
  IN  { <<later, sig>>,
        <<data, [sig EXCEPT !.enc = "variant"]>>,
        <<[data EXCEPT !.enc = "variant"], sig>>,
        <<later, Base64Url(Hmac(OtherSecret, later))>>,
        <<data, Base64Url([len |-> 31, mac |-> sig.bytes.mac])>>,
        <<data, data>>,
        <<data, sig, sig>> }

\* the cookies a client can send
Presentable ==
  {NoCookie, Cookie(EmptyValue), jar}
    \cup {Cookie(v) : v \in Known}
    \cup {Cookie(w) : w \in UNION {Alterations(v) : v \in Known}}

\* the client copies the value the server stored in its jar
Keep ==
  /\ Len(jar.value) = 2
  /\ held' = jar.value
  /\ UNCHANGED <<now, catalogVars, viewVars, jar, issuedAt, verdict, lastAct, presented>>

\* a request presents a cookie and isBackofficeAuthed checks it
Present ==
  /\ \E cookie \in Presentable :
       presented' = [cookie |-> cookie, jar |-> jar, at |-> now,
                     value |-> isBackofficeAuthed(cookie, now)]
  /\ UNCHANGED <<now, catalogVars, viewVars, jar, issuedAt, verdict, lastAct, held>>

\* half the life of a session passes
Wait ==
  /\ now + (SESSION_TTL_DAYS \div 2) <= MaxTokenTime
  /\ now' = now + (SESSION_TTL_DAYS \div 2)
  /\ UNCHANGED <<catalogVars, authVars, viewVars>>

TokenNext ==
  \/ Login
  \/ Logout
  \/ Keep
  \/ Present
  \/ Wait

TokenSpec == Init /\ [][TokenNext]_vars

(***************************************************************************)
(* The store on its own: what catalog.json can hold when the process       *)
(* starts, and the calls that read it.                                     *)
(***************************************************************************)
\* the sequences without repetition of members of S
Orderings(S) ==
  {q \in UNION {[1..n -> S] : n \in 0..Cardinality(S)} :
     \A i, j \in DOMAIN q : i # j => q[i] # q[j]}

StoredCategories ==
  { Category(<<"a">>, <<"a">>, 0),
    Category(<<"a", "b">>, <<"A", "b">>, 0),
    Category(<<"b">>, <<"B">>, 1) }

\* two products of stored categories and one of a category that is not there
StoredProducts ==
  LET f == NormalizeProductInput(ProductInputOfForm(BaseForm))
  IN  { Product(<<"p">>, f, 0),
        Product(<<"q">>, [f EXCEPT !.categoryId = <<"b">>,
                                   !.badgeVariant = "hot"], 1),
        Product(<<"r">>, [f EXCEPT !.categoryId = <<"z">>], 1) }

StoredDocs ==
  { [version |-> 1, updatedAt |-> 0, categories |-> cs, products |-> ps] :
      cs \in Orderings(StoredCategories), ps \in Orderings(StoredProducts) }

\* texts that parse to something that is no catalog: null, {"none":null},
\* [], {"version":1}, and objects whose version is "1", whose categories is
\* an object, whose products is null, whose categories is [null]
OtherValues ==
  { ValueFile(JNull, 4),
    ValueFile(JObject([none |-> JNull]), 13),
    ValueFile(JArray(<<>>), 2),
    ValueFile(JObject([version |-> JNumber(1)]), 13),
    ValueFile(JObject([version |-> JString("1"), categories |-> JArray(<<>>),
                       products |-> JArray(<<>>)]), 45),
    ValueFile(JObject([version |-> JNumber(1), categories |-> JObject([none |-> JNull]),
                       products |-> JArray(<<>>)]), 54),
    ValueFile(JObject([version |-> JNumber(1), categories |-> JArray(<<>>),
                       products |-> JNull]), 45),
    ValueFile(JObject([version |-> JNumber(1), categories |-> JArray(<<JNull>>),
                       products |-> JArray(<<>>)]), 47) }

\* what catalog.json can hold: nothing, an empty or a cut-off text, a
\* document, a document of another version, another JSON value
StoredFiles ==
  {AbsentFile, EmptyFile, GarbageFile(1)}
    \cup {Payload(doc) : doc \in StoredDocs}
    \cup {Payload([doc EXCEPT !.version = 2]) : doc \in StoredDocs}
    \cup OtherValues

(***************************************************************************)
(* getPublicCatalog.  a.localeCompare(b) of names made of letters and       *)
(* digits: digits sort before letters, letters in alphabetical order        *)
(* whatever their case; of two names that differ in case only, the one      *)
(* with the lower-case letter at the first difference sorts first.          *)
(* Timestamps of one format compare as the times they stand for.            *)
(***************************************************************************)
IndexIn(chars, c) == SetMin({i \in DOMAIN chars : chars[i] = c})

CollationRank(c) ==
  IF c \in Range(DigitChars) THEN IndexIn(DigitChars, c)
  ELSE IF c \in Range(LowerChars) THEN Len(DigitChars) + IndexIn(LowerChars, c)
  ELSE IF c \in Range(UpperChars) THEN Len(DigitChars) + IndexIn(UpperChars, c)
  ELSE 0

\* a.localeCompare(b) < 0
LocaleLess(a, b) ==
  LET common == 1..(IF Len(a) < Len(b) THEN Len(a) ELSE Len(b))
      ranked == {i \in common : CollationRank(a[i]) # CollationRank(b[i])}
      cased  == {i \in common : a[i] # b[i]}
  IN  IF ranked # {}
        THEN CollationRank(a[SetMin(ranked)]) < CollationRank(b[SetMin(ranked)])
      ELSE IF Len(a) # Len(b) THEN Len(a) < Len(b)
      ELSE IF cased # {} THEN a[SetMin(cased)] \in Range(LowerChars)
      ELSE FALSE

\* [...s].sort(compare), where less holds the pairs <<x, y>> of entries with
\* compare(x, y) < 0: the sort is stable, entries that compare equal keep
\* their order
SortBy(s, less) ==
  LET place(i) == 1 + Cardinality({j \in DOMAIN s :
                                     \/ <<s[j], s[i]>> \in less
                                     \/ (<<s[i], s[j]>> \notin less /\ j < i)})
  IN  [k \in DOMAIN s |-> s[CHOOSE i \in DOMAIN s : place(i) = k]]

\* getPublicCatalog sorting the products by createdAt ascending
getPublicCatalogOldestFirst(catalog) ==
  LET categories  == SortBy(catalog.categories,
                            {pair \in Range(catalog.categories)
                                        \X Range(catalog.categories) :
                               LocaleLess(pair[1].name, pair[2].name)})
      categoryIds == {c.id : c \in Range(categories)}
      shown       == SelectSeq(catalog.products,
                               LAMBDA q : q.categoryId \in categoryIds)
      products    == SortBy(shown,
                            {pair \in Range(shown) \X Range(shown) :
                               pair[1].createdAt < pair[2].createdAt})
  IN  [categories |-> categories, products |-> products]

\* getPublicCatalog, lines 116-125, on the catalog readCatalog returned
getPublicCatalog(catalog) ==
  LET categories  == SortBy(catalog.categories,
                            {pair \in Range(catalog.categories)
                                        \X Range(catalog.categories) :
                               LocaleLess(pair[1].name, pair[2].name)})
      categoryIds == {c.id : c \in Range(categories)}
      shown       == SelectSeq(catalog.products,
                               LAMBDA q : q.categoryId \in categoryIds)
      products    == SortBy(shown,
                            {pair \in Range(shown) \X Range(shown) :
                               pair[2].createdAt < pair[1].createdAt})
  IN  [categories |-> categories, products |-> products]

\* a call of getPublicCatalog; an entry of categories that is null makes
\* c.id throw
GetPublicCatalogCall ==
  /\ LET r == readCatalog(canon, now)
     IN  got' = [op |-> "getPublicCatalog", file |-> canon, at |-> now,
                 result |->
                   IF ~r.ok THEN r
                   ELSE IF \E c \in Range(r.catalog.categories) : c = JNull
                     THEN [ok |-> FALSE, message |-> "TypeError"]
                   ELSE [ok |-> TRUE, view |-> getPublicCatalog(r.catalog)]]
  /\ UNCHANGED <<now, catalogVars, authVars, first>>

\* writeCatalog(await readCatalog()): the read, and the call of writeCatalog
\* with what it returned
RoundTripRead(p) ==
  /\ pc[p] \in {"idle", "done"}
  /\ started < MaxRoundTrips
  /\ started' = started + 1
  /\ req' = [req EXCEPT ![p] = [op |-> "roundTrip", engine |-> FALSE]]
  /\ LET r == readCatalog(canon, now)
     IN  IF ~r.ok
           THEN /\ Finish(p, Thrown(r.message))
                /\ first' = NoDoc
                /\ next' = [next EXCEPT ![p] = NoDoc]
                /\ wrote' = [wrote EXCEPT ![p] = FALSE]
           ELSE /\ first' = r.catalog
                /\ CallWrite(p, r.catalog)
  /\ before' = canon
  /\ UNCHANGED <<now, canon, tmp, uuidCount, fd, authed, cookieKind, authVars, got>>

\* a call of readCatalog
ReadCatalogCall ==
  /\ got' = [op |-> "readCatalog", file |-> canon, at |-> now,
              result |-> readCatalog(canon, now)]
  /\ UNCHANGED <<now, catalogVars, authVars, first>>

StoreNext ==
  \/ Tick
  \/ ReadCatalogCall
  \/ GetPublicCatalogCall
  \/ RoundTripRead("p1")
  \/ Open("p1")
  \/ Write("p1")
  \/ Rename("p1")

StoreInit == InitFrom(StoredFiles)

StoreSpec == StoreInit /\ [][StoreNext]_vars

\* one request at a time, while time passes
SeqNext ==
  \/ Tick
  \/ SeqRequest("p1")
  \/ Read("p1")
  \/ Open("p1")
  \/ Write("p1")
  \/ Rename("p1")

SeqInit == InitFrom(SeedFiles)

\* requests that create categories of one slug, one at a time; a request
\* that can take a step takes it in the end (the file operations complete)
IdNext ==
  \/ IdRequest("p1")
  \/ Read("p1")
  \/ Open("p1")
  \/ Write("p1")
  \/ Rename("p1")

IdSpec ==
  /\ Init
  /\ [][IdNext]_vars
  /\ WF_vars(Read("p1"))
  /\ WF_vars(Open("p1"))
  /\ WF_vars(Write("p1"))
  /\ WF_vars(Rename("p1"))

\* requests with product forms, one at a time
ProductNext ==
  \/ Tick
  \/ ProductRequest("p1")
  \/ Read("p1")
  \/ Open("p1")
  \/ Write("p1")
  \/ Rename("p1")

ProductSpec == SeqInit /\ [][ProductNext]_vars

SeqSpec == SeqInit /\ [][SeqNext]_vars

(***************************************************************************)
(* Properties.                                                             *)
(***************************************************************************)
\* new is old without the entries that Drop holds of, in the same order
IsOldWithout(new, old, Drop(_)) ==
  LET kept == {i \in DOMAIN old : ~Drop(old[i])}
  IN  /\ Len(new) = Cardinality(kept)
      /\ \A j \in DOMAIN new :
           \E i \in kept : /\ Cardinality({k \in kept : k < i}) = j - 1
                           /\ new[j] = old[i]

\* the canonical file holds a complete serialization of a document
HoldsDocument(file) == file.kind = "json"

\* C1. Cascade integrity: when deleteCategory(C) runs alone on a catalog that
\* has category C, the document it persists has the categories of the
\* previous document without C, and the products of the previous document
\* without those whose categoryId is C, in the same order; every product of
\* C is gone and every other product is still there.
C1_CascadeIntegrity ==
  [][ ( /\ pc["p1"] = "rename"
        /\ pc'["p1"] = "done"
        /\ req["p1"].op = "deleteCategory" )
      => /\ HoldsDocument(canon)
         /\ HoldsDocument(canon')
         /\ req["p1"].id \in CategoryIds(canon.doc)
         /\ outcome'["p1"] = Ok
         /\ canon'.doc.version = canon.doc.version
         /\ IsOldWithout(canon'.doc.categories, canon.doc.categories,
                         LAMBDA c : c.id = req["p1"].id)
         /\ IsOldWithout(canon'.doc.products, canon.doc.products,
                         LAMBDA q : q.categoryId = req["p1"].id)
         /\ \A q \in Range(canon'.doc.products) : q.categoryId # req["p1"].id
         /\ \A q \in Range(canon.doc.products) :
              q.categoryId # req["p1"].id => q \in Range(canon'.doc.products)
    ]_vars

\* deleteCategory is about to persist a document that lost a product of the
\* deleted category and kept a product of another one
C1_Witness ==
  /\ pc["p1"] = "rename"
  /\ req["p1"].op = "deleteCategory"
  /\ HoldsDocument(canon)
  /\ tmp = Payload(next["p1"])
  /\ \E q \in Range(canon.doc.products) : q.categoryId = req["p1"].id
  /\ \E q \in Range(canon.doc.products) : q.categoryId # req["p1"].id
  /\ Len(next["p1"].products) = 1

\* C2. No orphan products: whatever the interleaving of the four mutations,
\* in every document the canonical file holds, the categoryId of every
\* product is the id of a category of that document.
C2_NoOrphanProducts ==
  HoldsDocument(canon) =>
    \A q \in Range(canon.doc.products) : q.categoryId \in CategoryIds(canon.doc)

\* a createProduct and a deleteCategory of its category are both about to
\* rename, over a catalog that holds the category
C2_Witness ==
  \E p, q \in Procs :
    /\ pc[p] = "rename" /\ req[p].op = "createProduct"
    /\ pc[q] = "rename" /\ req[q].op = "deleteCategory"
    /\ req[p].fields.categoryId = req[q].id
    /\ HoldsDocument(canon)
    /\ req[q].id \in CategoryIds(canon.doc)

\* C3. Atomic write: at every instant the canonical path is absent or
\* holds the complete serialization of a document.
C3_AtomicWrite ==
  canon.kind \in {"absent", "json"}

\* C4. Lost update (last write wins across the whole document): a rename
\* that succeeds makes the canonical file exactly what the temporary file
\* held; when that is the document of the renaming call, no category that
\* another call persisted meanwhile, and that the renaming call did not
\* read, is left in the canonical document.
C4_LastWriteWins ==
  [][ \A p \in Procs :
        (pc[p] = "rename" /\ pc'[p] = "done" /\ outcome'[p] = Ok)
        => /\ canon' = tmp
           /\ (tmp = Payload(next[p]) /\ HoldsDocument(canon))
                => /\ canon'.doc = JsonDoc(next[p])
                   /\ \A c \in Range(canon.doc.categories) :
                        c \notin Range(next[p].categories)
                          => c \notin Range(canon'.doc.categories)
    ]_vars

\* the only two requests were createCategory calls with different names,
\* both returned successfully, and the catalog holds one category only
C4_Witness ==
  \E p, q \in Procs :
    /\ p # q
    /\ started = 2
    /\ pc[p] = "done" /\ outcome[p] = Ok /\ wrote[p] /\ req[p].op = "createCategory"
    /\ pc[q] = "done" /\ outcome[q] = Ok /\ wrote[q] /\ req[q].op = "createCategory"
    /\ req[p].name # req[q].name
    /\ HoldsDocument(canon)
    /\ Len(canon.doc.categories) = 1
    /\ canon.doc.categories[1].name = req[q].name

EqualIgnoringCase(a, b) == toLowerCase(a) = toLowerCase(b)

\* C5. Category name uniqueness: a createCategory that reads a catalog with
\* a category of the same name ignoring case fails with the conflict error
\* and writes nothing; and in every document the canonical file holds no
\* two categories have names that are equal ignoring case.
C5_NameUniqueness ==
  /\ [](HoldsDocument(canon) =>
          \A i, j \in DOMAIN canon.doc.categories :
            i # j => ~EqualIgnoringCase(canon.doc.categories[i].name,
                                        canon.doc.categories[j].name))
  /\ [][ \A p \in Procs :
           ( /\ pc[p] = "read" /\ pc'[p] # "read"
             /\ req[p].op = "createCategory"
             /\ HoldsDocument(canon)
             /\ \E c \in Range(canon.doc.categories) :
                  EqualIgnoringCase(c.name, req[p].name) )
           => /\ pc'[p] = "done"
              /\ outcome'[p] = Failed("Category already exists.")
              /\ ~wrote'[p]
       ]_vars

\* createCategory(" a ") failed with the conflict error on a catalog that
\* holds category "A"
C5_Witness ==
  \E p \in Procs :
    /\ pc[p] = "done"
    /\ req[p].op = "createCategory"
    /\ outcome[p] = Failed("Category already exists.")
    /\ HoldsDocument(canon)
    /\ \E c \in Range(canon.doc.categories) : c.name # req[p].name

AllDistinct(ids) == \A i, j \in DOMAIN ids : i # j => ids[i] # ids[j]

IdsOf(entries) == [i \in DOMAIN entries |-> entries[i].id]

\* C6. Id uniqueness: in every document the canonical file holds no two
\* categories share an id and no two products share an id; a create whose
\* slug is not an id of the catalog it read gets the slug as id, one whose
\* slug is such an id gets another id, and the id is never one of them.
C6_IdUniqueness ==
  /\ [](HoldsDocument(canon) =>
          /\ AllDistinct(IdsOf(canon.doc.categories))
          /\ AllDistinct(IdsOf(canon.doc.products)))
  /\ [][ \A p \in Procs :
           ( /\ pc[p] = "read" /\ pc'[p] = "open"
             /\ req[p].op \in {"createCategory", "createProduct"} )
           => LET catalog == readCatalog(canon, now).catalog
                  isCat   == req[p].op = "createCategory"
                  used    == IF isCat THEN CategoryIds(catalog)
                             ELSE ProductIds(catalog)
                  slug    == slugify(IF isCat THEN req[p].name
                                     ELSE req[p].fields.name)
                  made    == IF isCat THEN next'[p].categories
                             ELSE next'[p].products
                  id      == made[Len(made)].id
              IN  /\ (slug # <<>> /\ slug \notin used) => id = slug
                  /\ slug \in used => id # slug
                  /\ id \notin used
       ]_vars

\* the catalog holds three categories of slug "a": one has the slug as id,
\* one the slug with a suffix and one the random identifier
C6_Witness ==
  /\ HoldsDocument(canon)
  /\ Len(canon.doc.categories) = 3
  /\ \A c \in Range(canon.doc.categories) : slugify(c.name) = <<"a">>
  /\ \E c \in Range(canon.doc.categories) : c.id = <<"a">>
  /\ \E c \in Range(canon.doc.categories) : c.id = <<"a", "-", "0", "0", "0", "0">>
  /\ \E c \in Range(canon.doc.categories) : c.id[1] = "uuid"

\* the messages of the validation and conflict errors
RejectionMessages ==
  { "Category name is required.",
    "Category name is too long (max 60 chars).",
    "Category already exists.",
    "Category is required.",
    "Product name is required.",
    "Product name is too long (max 80 chars).",
    "Product description is required.",
    "Product description is too long (max 200 chars).",
    "Price is required.",
    "Price is too long.",
    "Image URL is required.",
    "Image URL is too long.",
    "Image URL is invalid.",
    "Image URL must be https.",
    "Badge variant is invalid.",
    "Category does not exist." }

\* C7. Errors precede writes: a createCategory or createProduct that ended
\* with a validation or conflict error has not called writeCatalog, and the
\* canonical file is what it was when the request arrived.
C7_ErrorsPrecedeWrites ==
  \A p \in Procs :
    ( /\ pc[p] = "done"
      /\ req[p].op \in {"createCategory", "createProduct"}
      /\ outcome[p].kind = "error"
      /\ outcome[p].message \in RejectionMessages )
    => /\ ~wrote[p]
       /\ canon = before
       /\ tmp = AbsentFile

\* createProduct failed on a catalog that lacks its category
C7_Witness ==
  \E p \in Procs :
    /\ pc[p] = "done"
    /\ req[p].op = "createProduct"
    /\ outcome[p] = Failed("Category does not exist.")
    /\ HoldsDocument(canon)
    /\ canon.doc.categories # <<>>

DeletedField(op) == IF op = "deleteCategory" THEN "categories" ELSE "products"

\* C8. Idempotent delete: a deleteCategory or deleteProduct of an id the
\* catalog does not hold returns successfully, has not called writeCatalog,
\* and the canonical file, updatedAt included, is what it was when the
\* request arrived.
C8_IdempotentDelete ==
  \A p \in Procs :
    ( /\ pc[p] = "done"
      /\ req[p].op \in {"deleteCategory", "deleteProduct"}
      /\ req[p].engine
      /\ req[p].id \notin ListedIds(before, DeletedField(req[p].op)) )
    => /\ outcome[p] = Ok
       /\ ~wrote[p]
       /\ canon = before
       /\ tmp = AbsentFile

\* deleteCategory("a") ran a second time, later than the write of the first
C8_Witness ==
  \E p \in Procs :
    /\ pc[p] = "done"
    /\ req[p].op = "deleteCategory"
    /\ req[p].engine
    /\ req[p].id = <<"a">>
    /\ outcome[p] = Ok
    /\ ~wrote[p]
    /\ HoldsDocument(canon)
    /\ <<"a">> \notin CategoryIds(canon.doc)
    /\ canon.doc.updatedAt < now
    /\ Len(canon.doc.categories) = 1

\* C9. Authentication guard: a request is in the mutation engine only if
\* isBackofficeAuthed returned true to it, which it does for no cookie that
\* is absent, cleared, malformed, wrongly signed or expired; a request with
\* such a cookie ends with the auth-required redirect, has not called
\* writeCatalog and leaves the canonical file as it was.
C9_AuthGuard ==
  \A p \in Procs :
    /\ (pc[p] \in {"read", "open", "write", "rename"} \/ wrote[p] \/ req[p].engine)
         => (authed[p] /\ cookieKind[p] = "good")
    /\ (pc[p] = "done" /\ cookieKind[p] # "good")
         => /\ ~authed[p]
            /\ outcome[p] = Denied
            /\ ~req[p].engine
            /\ ~wrote[p]
            /\ canon = before
            /\ tmp = AbsentFile

\* deleteCategoryAction was called with an expired cookie on a catalog that
\* holds the category
C9_Witness ==
  \E p \in Procs :
    /\ pc[p] = "done"
    /\ cookieKind[p] = "expired"
    /\ req[p].op = "deleteCategory"
    /\ outcome[p] = Denied
    /\ HoldsDocument(canon)
    /\ canon.doc.categories # <<>>

\* C10. Session expiry: the cookie issued at time t carries exp = t + 30
\* days; isBackofficeAuthed returns true for it at every time before exp and
\* false from exp on; a token signed by the server whose exp is at or before
\* now is rejected.
C10_SessionExpiry ==
  /\ issuedAt >= 0 =>
       /\ jar.present /\ Len(jar.value) = 2
       /\ decodePayload(jar.value[1]) = [exp |-> issuedAt + 30]
       /\ isBackofficeAuthed(jar, now) = (now < issuedAt + 30)
  /\ verdict.issued >= 0 => (verdict.value = (verdict.at < verdict.issued + 30))
  /\ \A e \in 0..now :
       ~isBackofficeAuthed(
          Cookie(SignedValue(DataPart(e), ServerSecret, DataPart(e))), now)

\* the issued cookie was checked a day before it expires and accepted, and
\* it is the day it expires
C10_Witness ==
  /\ issuedAt >= 0
  /\ verdict.issued = issuedAt
  /\ verdict.at = issuedAt + 29
  /\ verdict.value
  /\ now = issuedAt + 30

\* the payload parts setBackofficeSessionCookie has signed up to time t
IssuedData(t) == {SessionValue(u)[1] : u \in 0..t}

\* C11. Unforgeability of the session check: every cookie value that
\* isBackofficeAuthed accepts has two parts, the second decodes to the HMAC
\* of the first under the server secret, and the first is a payload part the
\* server issued and the client holds; a value made by altering the payload
\* of an issued one is rejected, also when the new exp is in the future.
C11_Unforgeability ==
  /\ presented.value =>
       LET c == presented.cookie
       IN  /\ c.present
           /\ Len(c.value) = 2
           /\ Base64Bytes(c.value[2]) = Hmac(ServerSecret, c.value[1])
           /\ c.value[1] \in IssuedData(presented.at)
  /\ \A v \in Known : \A w \in Alterations(v) :
       (w[1] # v[1] \/ Base64Bytes(w[2]) # Base64Bytes(v[2]))
         => ~isBackofficeAuthed(Cookie(w), now)

\* the client presented the signature of a cookie that is still good with a
\* payload that expires later, and was rejected
C11_Witness ==
  /\ Len(held) = 2
  /\ isBackofficeAuthed(Cookie(held), presented.at)
  /\ presented.cookie.present
  /\ Len(presented.cookie.value) = 2
  /\ presented.cookie.value[2] = held[2]
  /\ presented.cookie.value[1].json.exp > held[1].json.exp
  /\ ~presented.value

\* the file holds the serialization of a catalog document
IsCatalogFile(file) ==
  /\ file.kind = "json"
  /\ file.doc.version = 1
  /\ \A c \in Range(file.doc.categories) : c # JNull

\* C12. Self-healing read: readCatalog on a file that is absent or holds
\* anything that is no catalog document returns the fresh empty document
\* (version 1, no categories, no products) and throws nothing.
C12_SelfHealingRead ==
  (got.op = "readCatalog" /\ ~IsCatalogFile(got.file))
    => got.result = [ok |-> TRUE, catalog |-> defaultCatalog(got.at)]

\* the rules of createProduct in their order, each with whether the fields
\* break it; ids are the ids of the categories of the catalog
ProductRules(f, ids) ==
  << [broken |-> f.categoryId = <<>>, message |-> "Category is required."],
     [broken |-> f.name = <<>>, message |-> "Product name is required."],
     [broken |-> Len(f.name) >= 81,
      message |-> "Product name is too long (max 80 chars)."],
     [broken |-> f.description = <<>>,
      message |-> "Product description is required."],
     [broken |-> Len(f.description) >= 201,
      message |-> "Product description is too long (max 200 chars)."],
     [broken |-> f.priceLabel = <<>>, message |-> "Price is required."],
     [broken |-> Len(f.priceLabel) >= 21, message |-> "Price is too long."],
     [broken |-> f.imageUrl = <<>>, message |-> "Image URL is required."],
     [broken |-> Len(f.imageUrl) >= 2001, message |-> "Image URL is too long."],
     [broken |-> UrlProtocol(f.imageUrl) = "invalid",
      message |-> "Image URL is invalid."],
     [broken |-> IF UrlProtocol(f.imageUrl) = "invalid" THEN FALSE
                 ELSE UrlProtocol(f.imageUrl) # <<"h","t","t","p","s",":">>,
      message |-> "Image URL must be https."],
     [broken |-> f.badgeVariant \notin {NoVariant, "default", "hot"},
      message |-> "Badge variant is invalid."],
     [broken |-> f.categoryId \notin ids, message |-> "Category does not exist."] >>

\* C13. Fail-fast validation order of createProduct: a call that has ended
\* reports the message of the first rule, in the fixed order, that its
\* normalized fields break, and nothing else; it succeeds exactly when they
\* break no rule.
C13_ValidationOrder ==
  \A p \in Procs :
    (pc[p] = "done" /\ req[p].op = "createProduct" /\ req[p].engine)
    => LET ids    == ListedIds(before, "categories")
           rules  == ProductRules(req[p].fields, ids)
           broken == {i \in DOMAIN rules : rules[i].broken}
       IN  IF broken = {}
             THEN outcome[p] = Ok
             ELSE outcome[p] = Failed(rules[SetMin(broken)].message)

\* a product whose name has 80 characters was created
C13_Witness ==
  \E p \in Procs :
    /\ pc[p] = "done"
    /\ req[p].op = "createProduct"
    /\ outcome[p] = Ok
    /\ Len(req[p].fields.name) = 80
    /\ HoldsDocument(canon)
    /\ \E q \in Range(canon.doc.products) : q.name = req[p].fields.name

\* how many entries of s are x
CountIn(s, x) == Cardinality({i \in DOMAIN s : s[i] = x})

\* s and t hold the same entries, each as many times
SameEntries(s, t) ==
  /\ Len(s) = Len(t)
  /\ \A x \in Range(s) \cup Range(t) : CountIn(s, x) = CountIn(t, x)

\* C14. Public view: for every stored catalog document getPublicCatalog
\* returns all the stored categories, by name ascending, and exactly the
\* stored products whose categoryId is the id of a stored category, by
\* createdAt descending; for a file that readCatalog replaces by the empty
\* document it returns nothing; the call writes nothing.
C14_PublicView ==
  /\ [](got.op = "getPublicCatalog" =>
          /\ IsCatalogFile(got.file) =>
               /\ got.result.ok
               /\ LET doc  == got.file.doc
                      view == got.result.view
                      ids  == {c.id : c \in Range(doc.categories)}
                  IN  /\ SameEntries(view.categories, doc.categories)
                      /\ \A i, j \in DOMAIN view.categories :
                           i < j => ~LocaleLess(view.categories[j].name,
                                                view.categories[i].name)
                      /\ SameEntries(view.products,
                                     SelectSeq(doc.products,
                                               LAMBDA q : q.categoryId \in ids))
                      /\ \A i, j \in DOMAIN view.products :
                           i < j => view.products[i].createdAt
                                      >= view.products[j].createdAt
          /\ (\/ got.file.kind = "absent"
              \/ (got.file.kind = "json" /\ got.file.doc.version # 1)) =>
               got.result = [ok |-> TRUE,
                             view |-> [categories |-> <<>>, products |-> <<>>]])
  /\ [][ (got' # got /\ got'.op = "getPublicCatalog")
          => (canon' = canon /\ tmp' = tmp /\ got'.file = canon) ]_vars

\* the view of a document that holds three categories in another order
\* than by name, and an older product before a newer one and before one
\* of a category that is not there
C14_Witness ==
  /\ got.op = "getPublicCatalog"
  /\ IsCatalogFile(got.file)
  /\ Len(got.file.doc.categories) = 3
  /\ got.file.doc.categories[1].name = <<"B">>
  /\ Len(got.file.doc.products) = 3
  /\ got.file.doc.products[1].createdAt < got.file.doc.products[2].createdAt
  /\ got.file.doc.products[2].categoryId = <<"z">>
  /\ got.result.ok
  /\ Len(got.result.view.products) = 2
  /\ got.result.view.categories[3].name = <<"B">>

\* C15. Round-trip: whatever catalog.json holds, writeCatalog(readCatalog())
\* returns, and a readCatalog after it returns a document with version 1
\* and the categories and products of the first read, in the same order.
C15_RoundTrip ==
  ( /\ pc["p1"] = "done"
    /\ req["p1"].op = "roundTrip"
    /\ got.op = "readCatalog"
    /\ got.file = canon )
  => /\ outcome["p1"] = Ok
     /\ got.result.ok
     /\ got.result.catalog.version = 1
     /\ got.result.catalog.categories = first.categories
     /\ got.result.catalog.products = first.products

\* C16. Termination of id generation: a createCategory or createProduct
\* call that has started ends, with a result or an error, whatever ids are
\* in use and whatever is drawn; the id it gets is the slug, the slug with a
\* suffix, or, when the slug and the suffixed candidates drawn are in use,
\* a random identifier.
C16_Termination ==
  /\ \A p \in Procs :
       (pc[p] \in {"read", "open", "write", "rename"}) ~> (pc[p] = "done")
  /\ [][ \A p \in Procs :
           ( /\ pc[p] = "read" /\ pc'[p] = "open"
             /\ req[p].op = "createCategory" )
           => LET used == CategoryIds(readCatalog(canon, now).catalog)
                  slug == slugify(req[p].name)
                  id   == next'[p].categories[Len(next'[p].categories)].id
              IN  \/ id = slug
                  \/ /\ slug \in used
                     /\ Len(id) = Len(slug) + 5
                     /\ SubSeq(id, 1, Len(slug) + 1) = slug \o <<"-">>
                  \/ /\ id[1] = "uuid"
                     /\ slug \in used => \E c \in used : Len(c) = Len(slug) + 5
       ]_vars

\* a createCategory whose slug and suffixed candidates were all in use
\* ended with a category whose id is a random identifier
C16_Witness ==
  /\ pc["p1"] = "done"
  /\ outcome["p1"] = Ok
  /\ req["p1"].op = "createCategory"
  /\ slugify(req["p1"].name) = <<"a">>
  /\ HoldsDocument(canon)
  /\ canon.doc.categories[Len(canon.doc.categories)].name = req["p1"].name
  /\ canon.doc.categories[Len(canon.doc.categories)].id[1] = "uuid"
  /\ \A sfx \in HexSuffixes : (<<"a", "-">> \o sfx) \in CategoryIds(canon.doc)

\* new is old with one entry appended
IsOldPlusOne(new, old) ==
  /\ Len(new) = Len(old) + 1
  /\ SubSeq(new, 1, Len(old)) = old

\* C17. Frame of each mutation: the document a mutation hands to
\* writeCatalog is the snapshot it read with the same fields and the same
\* version; createCategory keeps the products and the categories and puts
\* the new category last; createProduct keeps the categories and the
\* products and puts the new product last; deleteProduct keeps the
\* categories and drops only the product of the given id.
C17_Frame ==
  [][ \A p \in Procs :
        (pc[p] = "read" /\ pc'[p] = "open")
        => LET old == readCatalog(canon, now).catalog
               new == next'[p]
           IN  /\ DOMAIN new = DOMAIN old
               /\ new.version = old.version
               /\ req[p].op = "createCategory" =>
                    /\ new.products = old.products
                    /\ IsOldPlusOne(new.categories, old.categories)
                    /\ new.categories[Len(new.categories)].name = req[p].name
               /\ req[p].op = "createProduct" =>
                    /\ new.categories = old.categories
                    /\ IsOldPlusOne(new.products, old.products)
                    /\ new.products[Len(new.products)].name = req[p].fields.name
               /\ req[p].op = "deleteProduct" =>
                    /\ new.categories = old.categories
                    /\ IsOldWithout(new.products, old.products,
                                    LAMBDA q : q.id = req[p].id)
                    /\ Len(new.products) = Len(old.products) - 1
    ]_vars

\* deleteProduct hands over a document that kept one of two products, and
\* both categories
C17_Witness ==
  /\ pc["p1"] = "open"
  /\ req["p1"].op = "deleteProduct"
  /\ HoldsDocument(canon)
  /\ Len(canon.doc.products) = 2
  /\ Len(next["p1"].products) = 1
  /\ next["p1"].categories = canon.doc.categories
  /\ Len(next["p1"].categories) = 2

\* C18. A successful write was really persisted: when a writeCatalog call
\* returns without error, the canonical file holds the serialization of the
\* document of that call at the instant its rename completed, also while
\* another writeCatalog call is in progress.
C18_WritePersisted ==
  [][ \A p \in Procs :
        (pc[p] = "rename" /\ pc'[p] = "done" /\ outcome'[p] = Ok)
        => canon' = Payload(next[p])
    ]_vars

\* C19. Sessions are issued only after password verification:
\* verifyBackofficePassword is true exactly of the configured password; a
\* loginAction with another candidate leaves the cookie as it was; a
\* loginAction that sets the cookie was given the configured password and
\* sets the token issued at that time; no other step stores a token.
C19_IssuedAfterVerification ==
  [][ /\ (lastAct'.op = "login" /\ (lastAct' # lastAct \/ jar' # jar))
         => LET candidate == lastAct'.password
            IN  /\ verifyBackofficePassword(candidate)
                     <=> candidate = BACKOFFICE_PASSWORD
                /\ candidate # BACKOFFICE_PASSWORD => jar' = jar
                /\ candidate = BACKOFFICE_PASSWORD
                     => jar' = Cookie(SessionValue(now))
      /\ (jar' # jar /\ jar'.value # EmptyValue)
         => lastAct' = LoginAct(BACKOFFICE_PASSWORD)
    ]_vars

\* a login with a wrong candidate after a login with the right one left the
\* cookie of the earlier login in place
C19_Witness ==
  /\ lastAct = LoginAct("Password")
  /\ now > 0
  /\ jar = Cookie(SessionValue(0))

\* C20. Stateless logout: the verdict of isBackofficeAuthed is a function of
\* the presented cookie value, the secret and the time; after logoutAction
\* the cookie holds the empty value, which is refused; logoutAction changes
\* nothing the server keeps, so a token issued earlier is accepted whenever
\* it is presented before its exp, whatever the cookie of the browser holds
\* by then.
C20_StatelessLogout ==
  /\ [](lastAct = LogoutAct
          => (jar = Cookie(EmptyValue) /\ ~isBackofficeAuthed(jar, now)))
  /\ [](presented.at >= 0
          => /\ presented.value
                  = isBackofficeAuthed(presented.cookie, presented.at)
             /\ \A t \in 0..presented.at :
                  (/\ presented.cookie = Cookie(SessionValue(t))
                   /\ presented.at < t + SESSION_TTL_DAYS)
                  => presented.value)
  /\ [][ (lastAct' = LogoutAct /\ (lastAct' # lastAct \/ jar' # jar))
         => /\ jar' = Cookie(EmptyValue)
            /\ UNCHANGED <<now, catalogVars, viewVars, held>>
    ]_vars

\* a token copied before the logout is presented after it, while the cookie
\* of the browser is empty, and is accepted
C20_Witness ==
  /\ lastAct = LogoutAct
  /\ presented.jar = Cookie(EmptyValue)
  /\ Len(held) = 2
  /\ presented.cookie = Cookie(held)
  /\ presented.at > 0
  /\ presented.value

====
